---- MODULE Spec2Model ----
(***************************************************************************)
(* Netcode core of the multiplayer platformer: the authoritative room      *)
(* (PlatformerRoom) and the predicting client scene (PlatformerScene).     *)
(*                                                                         *)
(* Numbers.  Positions and velocities are fixed-point integers, FP steps   *)
(* per world unit (pixel).  Forces are counted in hundredths.  The physics *)
(* engine (Matter.js) is an external library: EngineUpdate is a coarse     *)
(* integrator standing for Matter.Engine.update, the same on both peers.   *)
(***************************************************************************)
EXTENDS Integers, Sequences, FiniteSets, TLC

VARIABLES
    room_currentTick,   \* PlatformerRoom.currentTick
    room_elapsedTime,   \* elapsedTime of the simulation interval's callback
    room_clock,         \* the wall clock of the room: the sum of the deltaTimes so far
    room_players,       \* PlatformerRoom.state.players : sessionId -> Player
    room_playerBodies,  \* PlatformerRoom.playerBodies  : sessionId -> body
    room_drained,       \* per session, what the last fixedTick saw and did:
                        \*   before  - the inputQueue as it was when the step began
                        \*   applied - the commands the drain loop applied, in order
                        \*   force   - body.force.y when the drain loop ended
                        \*   removed - the commands the cleanup filtered out
    room_left,          \* the session ids whose connection has closed (an id is never reused)
    scene_body,         \* PlatformerScene.currentPlayer's body, NoBody until onAdd
    scene_player,       \* the replicated Player of the local session (room.state.players)
    scene_keys,         \* the keyboard: [left, right, jump] as isDown reports them
    scene_currentTick,  \* PlatformerScene.currentTick
    scene_elapsedTime,  \* PlatformerScene.elapsedTime
    scene_clock,        \* the wall clock of the scene: the sum of the deltas update() was given
    scene_inputPayload, \* PlatformerScene.inputPayload
    scene_inputBuffer,  \* PlatformerScene.inputBuffer
    scene_lastReconciledTick, \* PlatformerScene.lastReconciledTick
    scene_rtt,          \* PlatformerScene.rtt
    scene_serverTickOffset,   \* PlatformerScene.serverTickOffset
    scene_blend,        \* the last pass of reconcileWithServer (NoBody: no pass yet):
                        \*   before  - the body when the pass began
                        \*   blended - the body after the two lerps, before the replay
                        \*   against - the authoritative state the pass was given
    scene_frame,        \* the number of physics frames the client's game loop has run
    scene_entities,     \* PlatformerScene.playerEntities : sessionId -> the sprite of a
                        \* remote player: its displayed x, y and, under server, the
                        \* serverX, serverY data (NoBody until the first onChange)
    scene_now,          \* Date.now() of the client, in milliseconds since the scene began
    scene_lastPingTime, \* PlatformerScene.lastPingTime
    net_inputs,         \* the input messages (type 0) on their way to the room, in the
                        \* order sent: [from |-> sessionId, input |-> InputData]
    net_pings,          \* the "ping" messages of the local client on their way to the room
    net_pongs,          \* the "pong" messages on their way to the local client
    net_sentAt          \* the times at which the pings behind the pongs and pings in
                        \* flight were sent, oldest first (the transport keeps the order)

roomVars == <<room_currentTick, room_elapsedTime, room_clock, room_players,
              room_playerBodies, room_drained, room_left>>

sceneVars == <<scene_body, scene_player, scene_keys, scene_currentTick, scene_elapsedTime,
               scene_clock, scene_inputPayload, scene_inputBuffer, scene_lastReconciledTick,
               scene_rtt, scene_serverTickOffset, scene_blend, scene_frame,
               scene_entities, scene_now, scene_lastPingTime>>

netVars == <<net_inputs, net_pings, net_pongs, net_sentAt>>

vars == <<roomVars, sceneVars, netVars>>

----------------------------------------------------------------------------
(* Bounds of the model *)

MaxRoomTick == 3
MaxQueue == 2
MaxFlood == 31
MaxFloodTick == 2
MaxSceneTick == 2
MaxSnapshotTick == 2
MaxFrames == 1
MaxBufferTick == 152
MaxPings == 1
MaxPingTick == 3
MaxNetLoad == 1
MaxNetTick == 2
MaxLoopTick == 1

----------------------------------------------------------------------------
(* Shared constants (constants.ts) *)

FP == 10 * 10                  \* fixed-point steps per pixel
PLAYER_SPEED == 5
JUMP_FORCE == 15               \* 0.15, in hundredths
PLAYER_SIZE == 32
SPAWN_X == 50
SPAWN_Y == 500
GROUND_Y == 590
PLAYER_MASS == 5
GROUND_THRESHOLD == 2
MAP_WIDTH == 800
GRAVITY_Y == 1

\* Time is counted in sixtieths of a millisecond: MS of them make a millisecond and
\* FIXED_TIME_STEP = 1000 / 60 ms is 1000 of them
MS == 60
FIXED_TIME_STEP == 1000

\* the square of FIXED_TIME_STEP, in ms^2, rounded down
DT2 == (1000 * 1000) \div (60 * 60)

\* LEVEL_CONFIG: the ground and the platforms, {x, y, width, height} (centre, size)
LEVEL_CONFIG ==
    { [x |-> MAP_WIDTH \div 2, y |-> GROUND_Y, width |-> MAP_WIDTH, height |-> 20],
      [x |-> 200, y |-> 400, width |-> 200, height |-> 20],
      [x |-> 500, y |-> 300, width |-> 200, height |-> 20] }

\* Server queue cleanup: high-water mark and retention window
ROOM_QUEUE_HIGH_WATER == 20
ROOM_QUEUE_RETENTION == 10

NoBody == [none |-> TRUE]

Abs(n) == IF n < 0 THEN -n ELSE n

----------------------------------------------------------------------------
(* Physics helpers (physicsUtils.ts) and the engine step *)

createPlayerBodyAtOrigin(x, y) == [x |-> 0, y |-> 0, vx |-> 0, vy |-> 0, fy |-> 0]

\* createPlayerBody: a body at (x, y), at rest, no pending force
createPlayerBody(x, y) == [x |-> x * FP, y |-> y * FP, vx |-> 0, vy |-> 0, fy |-> 0]

\* The body's box overlaps the ground body g (Matter.Collision.collides)
Collides(body, g) ==
    /\ Abs(body.x - g.x * FP) * 2 < (PLAYER_SIZE + g.width) * FP
    /\ Abs(body.y - g.y * FP) * 2 < (PLAYER_SIZE + g.height) * FP

\* The downward ray from the body's centre, PLAYER_SIZE/2 + 2 long, hits g
RayHits(body, g) ==
    /\ Abs(body.x - g.x * FP) * 2 <= g.width * FP
    /\ body.y * 2 <= (2 * g.y + g.height) * FP
    /\ (body.y + (PLAYER_SIZE \div 2 + 2) * FP) * 2 >= (2 * g.y - g.height) * FP

\* isGrounded(body, groundBodies)
isGrounded(body) ==
    \/ \E g \in LEVEL_CONFIG :
          /\ Collides(body, g)
          /\ (body.y + (PLAYER_SIZE \div 2) * FP) * 2
                <= (2 * g.y - g.height) * FP + 2 * GROUND_THRESHOLD * FP
    \/ \E g \in LEVEL_CONFIG : RayHits(body, g)
    \/ Abs(body.vy) * 10 < FP

\* applyJump(body, JUMP_FORCE): Matter.Body.applyForce adds {0, -jumpForce} to body.force
applyJump(body) == [body EXCEPT !.fy = @ - JUMP_FORCE]

\* Matter.Body.setVelocity(body, {x: velocityX, y: body.velocity.y})
setVelocityX(body, velocityX) == [body EXCEPT !.vx = velocityX * FP]

\* The rest height of a body standing on g
RestY(g) == ((2 * g.y - g.height - PLAYER_SIZE) * FP) \div 2

EngineUpdateKeepingForce(body) ==
    LET vy1 == body.vy + (GRAVITY_Y * DT2 * FP) \div 1000
                       + (body.fy * DT2 * FP) \div (100 * PLAYER_MASS)
    IN  [x |-> body.x + body.vx, y |-> body.y + vy1, vx |-> body.vx, vy |-> vy1,
         fy |-> body.fy]

\* Matter.Engine.update(engine, timeStep) for one body: gravity and the pending
\* force change the velocity, the velocity moves the body, a surface below stops it
EngineUpdate(body) ==
    LET vy1 == body.vy + (GRAVITY_Y * DT2 * FP) \div 1000
                       + (body.fy * DT2 * FP) \div (100 * PLAYER_MASS)
        x1  == body.x + body.vx
        y1  == body.y + vy1
        under == { g \in LEVEL_CONFIG :
                     /\ Abs(x1 - g.x * FP) * 2 < (PLAYER_SIZE + g.width) * FP
                     /\ body.y <= RestY(g)
                     /\ y1 >= RestY(g) }
    IN  IF under = {}
        THEN [x |-> x1, y |-> y1, vx |-> body.vx, vy |-> vy1, fy |-> 0]
        ELSE LET g == CHOOSE h \in under : \A k \in under : RestY(h) <= RestY(k)
             IN  [x |-> x1, y |-> RestY(g), vx |-> body.vx, vy |-> 0, fy |-> 0]

----------------------------------------------------------------------------
(* The input queue of the room *)

InputData(l, r, j, t) == [left |-> l, right |-> r, jump |-> j, tick |-> t]

\* c put into the sorted q behind every entry whose tick is <= c.tick
InsertByTick(q, c) ==
    SelectSeq(q, LAMBDA e : e.tick <= c.tick) \o <<c>> \o SelectSeq(q, LAMBDA e : e.tick > c.tick)

RECURSIVE SortInto(_, _)
SortInto(sorted, rest) ==
    IF rest = <<>> THEN sorted
    ELSE SortInto(InsertByTick(sorted, Head(rest)), Tail(rest))

\* player.inputQueue.sort((a, b) => a.tick - b.tick): ascending, equal ticks keep
\* their order (the sort is stable)
SortByTick(q) == SortInto(<<>>, q)

SortByTickUnsorted(q) == q

\* The sort call of fixedTick
SortQueue(q) == SortByTick(q)

RoomVelocityXRightFirst(input) ==
    IF input.right THEN PLAYER_SPEED
    ELSE IF input.left THEN -PLAYER_SPEED
    ELSE 0

\* The velocity a command asks for
RoomVelocityX(input) ==
    IF input.left THEN -PLAYER_SPEED
    ELSE IF input.right THEN PLAYER_SPEED
    ELSE 0

ApplyRoomInputUngrounded(body, input, grounded) ==
    LET b1 == setVelocityX(body, RoomVelocityX(input))
    IN  IF input.jump THEN applyJump(b1) ELSE b1

\* One iteration of the drain loop's body on the physics body
ApplyRoomInput(body, input, grounded) ==
    LET b1 == setVelocityX(body, RoomVelocityX(input))
    IN  IF input.jump /\ grounded THEN applyJump(b1) ELSE b1

DueNowStrict(input, tick) == input.tick < tick

DueNowAhead(input, tick) == input.tick <= tick + 1

\* The loop condition: inputQueue[0].tick <= currentTick
DueNow(input, tick) == input.tick <= tick

RECURSIVE Drain(_, _, _, _, _)
\* while (queue.length > 0 && queue[0].tick <= currentTick) { shift; apply }
\* st = [queue, body, lastProcessedTick, applied]
Drain(queue, body, lpt, applied, ctx) ==
    IF queue # <<>> /\ DueNow(Head(queue), ctx.tick)
    THEN Drain(Tail(queue),
               ApplyRoomInput(body, Head(queue), ctx.grounded),
               Head(queue).tick,
               Append(applied, Head(queue)),
               ctx)
    ELSE [queue |-> queue, body |-> body, lastProcessedTick |-> lpt, applied |-> applied]

\* filter(input => input.tick > cutoffTick)
FilterNewer(q, cutoffTick) == SelectSeq(q, LAMBDA input : input.tick > cutoffTick)

CleanQueueKeepingTail(q, tick) ==
    IF Len(q) > ROOM_QUEUE_HIGH_WATER
    THEN SubSeq(q, Len(q) - ROOM_QUEUE_RETENTION + 1, Len(q))
    ELSE q

\* The cleanup after the drain loop
CleanQueue(q, tick) ==
    IF Len(q) > ROOM_QUEUE_HIGH_WATER
    THEN FilterNewer(q, tick - ROOM_QUEUE_RETENTION)
    ELSE q

\* What fixedTick does to one player: [player, body, drained]
StepPlayer(player, body, tick) ==
    LET grounded == isGrounded(body)
        d  == Drain(SortQueue(player.inputQueue), body, player.lastProcessedTick, <<>>,
                    [tick |-> tick, grounded |-> grounded])
        q1 == CleanQueue(d.queue, tick)
        b1 == EngineUpdate(d.body)
    IN  [player |-> [x |-> b1.x, y |-> b1.y, vx |-> b1.vx, vy |-> b1.vy,
                     tick |-> tick, isGrounded |-> grounded,
                     lastProcessedTick |-> d.lastProcessedTick,
                     inputQueue |-> q1],
         body |-> b1,
         drained |-> [before |-> player.inputQueue,
                      applied |-> d.applied,
                      force   |-> d.body.fy,
                      removed |-> SelectSeq(d.queue,
                                     LAMBDA input : \A i \in DOMAIN q1 : q1[i] # input)]]

----------------------------------------------------------------------------
(* The room's handlers *)

Joined == DOMAIN room_players

NothingDrained == [before |-> <<>>, applied |-> <<>>, force |-> 0, removed |-> <<>>]

RoomJoinAtTickZero(s) ==
    /\ s \notin Joined \cup room_left
    /\ room_players' =
          [t \in Joined \cup {s} |->
              IF t = s
              THEN [x |-> SPAWN_X * FP, y |-> SPAWN_Y * FP, vx |-> 0, vy |-> 0,
                    tick |-> 0, isGrounded |-> FALSE,
                    lastProcessedTick |-> 0, inputQueue |-> <<>>]
              ELSE room_players[t]]
    /\ room_playerBodies' =
          [t \in DOMAIN room_playerBodies \cup {s} |->
              IF t = s THEN createPlayerBody(SPAWN_X, SPAWN_Y) ELSE room_playerBodies[t]]
    /\ room_drained' =
          [t \in Joined \cup {s} |-> IF t = s THEN NothingDrained ELSE room_drained[t]]
    /\ UNCHANGED <<room_currentTick, room_elapsedTime, room_clock, room_left>>

\* onJoin(client)
RoomJoin(s) ==
    /\ s \notin Joined \cup room_left
    /\ LET body == createPlayerBody(SPAWN_X, SPAWN_Y)
       IN  /\ room_players' =
                [t \in Joined \cup {s} |->
                    IF t = s
                    THEN [x |-> SPAWN_X * FP, y |-> SPAWN_Y * FP, vx |-> 0, vy |-> 0,
                          tick |-> room_currentTick, isGrounded |-> FALSE,
                          lastProcessedTick |-> 0, inputQueue |-> <<>>]
                    ELSE room_players[t]]
           /\ room_playerBodies' =
                [t \in DOMAIN room_playerBodies \cup {s} |->
                    IF t = s THEN body ELSE room_playerBodies[t]]
    /\ room_drained' =
          [t \in Joined \cup {s} |-> IF t = s THEN NothingDrained ELSE room_drained[t]]
    /\ UNCHANGED <<room_currentTick, room_elapsedTime, room_clock, room_left>>

RoomLeaveKeepingBody(s) ==
    /\ s \in Joined
    /\ room_players' = [t \in Joined \ {s} |-> room_players[t]]
    /\ room_drained' = [t \in Joined \ {s} |-> room_drained[t]]
    /\ room_left' = room_left \cup {s}
    /\ UNCHANGED <<room_currentTick, room_elapsedTime, room_clock, room_playerBodies>>

RoomLeaveResetting(s) ==
    /\ s \in Joined
    /\ room_playerBodies' = [t \in DOMAIN room_playerBodies \ {s} |-> room_playerBodies[t]]
    /\ room_players' = [t \in Joined \ {s} |-> room_players[t]]
    /\ room_drained' = [t \in Joined \ {s} |-> room_drained[t]]
    /\ room_left' = room_left \cup {s}
    /\ room_currentTick' = 0
    /\ UNCHANGED <<room_elapsedTime, room_clock>>

\* onLeave(client)
RoomLeave(s) ==
    /\ s \in Joined
    /\ room_playerBodies' = [t \in DOMAIN room_playerBodies \ {s} |-> room_playerBodies[t]]
    /\ room_players' = [t \in Joined \ {s} |-> room_players[t]]
    /\ room_drained' = [t \in Joined \ {s} |-> room_drained[t]]
    /\ room_left' = room_left \cup {s}
    /\ UNCHANGED <<room_currentTick, room_elapsedTime, room_clock>>

RoomInputCreating(s, input) ==
    /\ room_players' =
          [t \in Joined \cup {s} |->
              IF t \in Joined
              THEN IF t = s THEN [room_players[t] EXCEPT !.inputQueue = Append(@, input)]
                            ELSE room_players[t]
              ELSE [x |-> SPAWN_X * FP, y |-> SPAWN_Y * FP, vx |-> 0, vy |-> 0,
                    tick |-> room_currentTick, isGrounded |-> FALSE,
                    lastProcessedTick |-> 0, inputQueue |-> <<input>>]]
    /\ UNCHANGED <<room_currentTick, room_elapsedTime, room_clock, room_playerBodies,
                   room_drained, room_left>>

RoomInputStamping(s, input) ==
    /\ room_players' =
          IF s \in Joined
          THEN [room_players EXCEPT ![s].inputQueue = Append(@, input),
                                    ![s].lastProcessedTick = input.tick]
          ELSE room_players
    /\ UNCHANGED <<room_currentTick, room_elapsedTime, room_clock, room_playerBodies,
                   room_drained, room_left>>

\* onMessage(0, (client, input) => ...)
RoomInput(s, input) ==
    /\ room_players' =
          IF s \in Joined
          THEN [room_players EXCEPT ![s].inputQueue = Append(@, input)]
          ELSE room_players
    /\ UNCHANGED <<room_currentTick, room_elapsedTime, room_clock, room_playerBodies,
                   room_drained, room_left>>

\* what fixedTick reads and writes
RoomNow ==
    [currentTick |-> room_currentTick, players |-> room_players,
     playerBodies |-> room_playerBodies, drained |-> room_drained]

\* fixedTick(timeStep) on those
RoomTicked(st) ==
    LET tick == st.currentTick + 1
        step == [s \in DOMAIN st.players |->
                    StepPlayer(st.players[s], st.playerBodies[s], tick)]
    IN  [currentTick |-> tick,
         players |-> [s \in DOMAIN st.players |-> step[s].player],
         playerBodies |-> [s \in DOMAIN st.players |-> step[s].body],
         drained |-> [s \in DOMAIN st.players |-> step[s].drained]]

RoomRunOnce(st, elapsedTime) ==
    IF elapsedTime >= FIXED_TIME_STEP
    THEN [st |-> RoomTicked(st), elapsedTime |-> elapsedTime - FIXED_TIME_STEP]
    ELSE [st |-> st, elapsedTime |-> elapsedTime]

RECURSIVE RoomRun(_, _)
\* while (elapsedTime >= this.fixedTimeStep) { elapsedTime -= fixedTimeStep; fixedTick }
RoomRun(st, elapsedTime) ==
    IF elapsedTime >= FIXED_TIME_STEP
    THEN RoomRun(RoomTicked(st), elapsedTime - FIXED_TIME_STEP)
    ELSE [st |-> st, elapsedTime |-> elapsedTime]

\* one call of fixedTick: a simulation interval that finds exactly one step's worth of time
RoomFixedTick ==
    LET st == RoomTicked(RoomNow)
    IN  /\ room_currentTick' = st.currentTick
        /\ room_players' = st.players
        /\ room_playerBodies' = st.playerBodies
        /\ room_drained' = st.drained
        /\ room_clock' = room_clock + FIXED_TIME_STEP
        /\ UNCHANGED <<room_elapsedTime, room_left>>

\* the callback of setSimulationInterval, deltaTime in sixtieths of a millisecond
RoomUpdate(deltaTime) ==
    LET r == RoomRun(RoomNow, room_elapsedTime + deltaTime)
    IN  /\ room_clock' = room_clock + deltaTime
        /\ room_elapsedTime' = r.elapsedTime
        /\ room_currentTick' = r.st.currentTick
        /\ room_players' = r.st.players
        /\ room_playerBodies' = r.st.playerBodies
        /\ room_drained' = r.st.drained
        /\ UNCHANGED room_left

\* onMessage("ping", client => this.send(client, "pong", {}))
RoomPing ==
    /\ net_pings > 0
    /\ net_pings' = net_pings - 1
    /\ net_pongs' = net_pongs + 1
    /\ UNCHANGED <<roomVars, net_inputs, net_sentAt>>

\* a client's room.send(0, input)
ClientSend(s, input) ==
    /\ net_inputs' = Append(net_inputs, [from |-> s, input |-> input])
    /\ UNCHANGED <<net_pings, net_pongs, net_sentAt>>

\* the transport hands the oldest input message to onMessage(0)
NetDeliverInput ==
    /\ net_inputs # <<>>
    /\ RoomInput(Head(net_inputs).from, Head(net_inputs).input)
    /\ net_inputs' = Tail(net_inputs)
    /\ UNCHANGED <<net_pings, net_pongs, net_sentAt>>

----------------------------------------------------------------------------
(* The scene: prediction and reconciliation *)

\* Client buffer cleanup: high-water mark and retention window
SCENE_BUFFER_HIGH_WATER == 100
SCENE_BUFFER_RETENTION == 50

\* reconcileWithServer: the distance threshold and the two lerp factors, in tenths
RECONCILE_DISTANCE == 30
LERP_FAR == 5
LERP_NEAR == 2

\* Phaser.Math.Linear(p0, p1, t) = (p1 - p0) * t + p0, with t in tenths
Linear(p0, p1, t10) == p0 + ((p1 - p0) * t10) \div 10

\* Phaser.Math.Distance.Between(x1, y1, x2, y2), squared
Distance2(x1, y1, x2, y2) == (x2 - x1) * (x2 - x1) + (y2 - y1) * (y2 - y1)

LerpFactorAtLeast(body, serverPlayer) ==
    IF Distance2(body.x, body.y, serverPlayer.x, serverPlayer.y)
          >= (RECONCILE_DISTANCE * FP) * (RECONCILE_DISTANCE * FP)
    THEN LERP_FAR ELSE LERP_NEAR

LerpFactorAlwaysFar(body, serverPlayer) == LERP_FAR

\* const lerpFactor = distance > 30 ? 0.5 : 0.2
LerpFactor(body, serverPlayer) ==
    IF Distance2(body.x, body.y, serverPlayer.x, serverPlayer.y)
          > (RECONCILE_DISTANCE * FP) * (RECONCILE_DISTANCE * FP)
    THEN LERP_FAR ELSE LERP_NEAR

\* setPosition and setVelocity of reconcileWithServer: both lerped with one factor
Blend(body, serverPlayer) ==
    LET f == LerpFactor(body, serverPlayer)
    IN  [body EXCEPT !.x  = Linear(body.x, serverPlayer.x, f),
                     !.y  = Linear(body.y, serverPlayer.y, f),
                     !.vx = Linear(body.vx, serverPlayer.vx, f),
                     !.vy = Linear(body.vy, serverPlayer.vy, f)]

\* isPlayerGrounded(): the downward ray hits a ground body, or the body barely moves vertically
isPlayerGrounded(body) ==
    \/ \E g \in LEVEL_CONFIG : RayHits(body, g)
    \/ Abs(body.vy) * 10 < FP

\* The velocity applyInput asks for
SceneVelocityX(input) ==
    IF input.left THEN -PLAYER_SPEED
    ELSE IF input.right THEN PLAYER_SPEED
    ELSE 0

\* applyInput(input) on the local body
applyInput(body, input) ==
    LET isGroundedNow == isPlayerGrounded(body)
        b1 == setVelocityX(body, SceneVelocityX(input))
    IN  IF input.jump /\ isGroundedNow THEN applyJump(b1) ELSE b1

RECURSIVE Replay(_, _)
\* this.inputBuffer.forEach(input => this.applyInput(input))
Replay(body, buffer) ==
    IF buffer = <<>> THEN body
    ELSE Replay(applyInput(body, Head(buffer)), Tail(buffer))

PendingInclusive(buffer, tick) == SelectSeq(buffer, LAMBDA input : input.tick >= tick)

\* this.inputBuffer.filter(input => input.tick > serverPlayer.lastProcessedTick)
Pending(buffer, tick) == SelectSeq(buffer, LAMBDA input : input.tick > tick)

\* reconcileWithServer(serverPlayer), with currentPlayer's body and the inputBuffer
reconcileWithServer(body, buffer, serverPlayer) ==
    LET blended == Blend(body, serverPlayer)
        pending == Pending(buffer, serverPlayer.lastProcessedTick)
    IN  [body |-> Replay(blended, pending),
         blend |-> [before |-> body, blended |-> blended, against |-> serverPlayer],
         inputBuffer |-> pending,
         lastReconciledTick |-> serverPlayer.lastProcessedTick]

ShouldReconcileAlso(serverPlayer, lastReconciledTick) ==
    serverPlayer.lastProcessedTick >= lastReconciledTick

ShouldReconcileAnyChange(serverPlayer, lastReconciledTick) ==
    serverPlayer.lastProcessedTick # lastReconciledTick

\* if (player.lastProcessedTick > this.lastReconciledTick)
ShouldReconcile(serverPlayer, lastReconciledTick) ==
    serverPlayer.lastProcessedTick > lastReconciledTick

RECURSIVE TopBit(_, _)
\* the largest power of two that is <= n, searched upwards from the power of two p
TopBit(n, p) == IF 2 * p > n THEN p ELSE TopBit(n, 2 * p)

\* Math.round(rtt / (2 * FIXED_TIME_STEP)) for a whole number of milliseconds rtt >= 0,
\* computed in doubles.  FIXED_TIME_STEP = 1000 / 60 is the double just above 50/3,
\* so 2 * FIXED_TIME_STEP is (100/3) * (1 + e) with e = 1 / (3 * 4691249611844267),
\* and the quotient is 3 * rtt / 100 less a relative e.  Away from a tie that changes
\* nothing.  At a tie, 3 * rtt / 100 = h / 2 with h odd, the quotient is stored as the
\* double below h / 2 (and Math.round then goes down) when the shortfall exceeds half
\* a unit in the last place of h / 2, that is when h / TopBit(h) > 25 / 16; otherwise
\* it is stored as h / 2 itself and Math.round goes up.
TickOffset(rtt) ==
    LET h     == (3 * rtt) \div 50
        tie   == (3 * rtt) % 100 = 50
        short == tie /\ 16 * h > 25 * TopBit(h, 1)
    IN  (rtt * 60 + 1000) \div (2 * 1000) - (IF short THEN 1 ELSE 0)

CleanBufferAlways(buffer, adjustedTick) ==
    SelectSeq(buffer, LAMBDA input : input.tick > adjustedTick - SCENE_BUFFER_RETENTION)

\* The cleanup at the end of the client's fixedTick
CleanBuffer(buffer, adjustedTick) ==
    IF Len(buffer) > SCENE_BUFFER_HIGH_WATER
    THEN SelectSeq(buffer, LAMBDA input : input.tick > adjustedTick - SCENE_BUFFER_RETENTION)
    ELSE buffer

\* players.onAdd for the local session: the sprite and its body are created
SceneOnAdd(player) ==
    /\ scene_body = NoBody
    /\ scene_body' = [x |-> player.x, y |-> player.y, vx |-> 0, vy |-> 0, fy |-> 0]
    /\ scene_player' = player
    /\ UNCHANGED <<scene_keys, scene_currentTick, scene_elapsedTime, scene_clock,
                   scene_inputPayload, scene_inputBuffer, scene_lastReconciledTick,
                   scene_rtt, scene_serverTickOffset, scene_blend, scene_frame,
                   scene_entities, scene_now, scene_lastPingTime>>

\* a key goes down or up
SceneKey(keys) ==
    /\ scene_keys' = keys
    /\ UNCHANGED <<scene_body, scene_player, scene_currentTick, scene_elapsedTime,
                   scene_clock, scene_inputPayload, scene_inputBuffer,
                   scene_lastReconciledTick, scene_rtt, scene_serverTickOffset,
                   scene_blend, scene_frame,
                   scene_entities, scene_now, scene_lastPingTime>>

\* the session of the local client (room.sessionId)
LocalSession == "s1"

AdjustedTickNoOffset(tick, offset) == tick

\* const adjustedTick = this.currentTick + this.serverTickOffset
AdjustedTick(tick, offset) == tick + offset

\* what fixedTick reads and writes: the scene's fields and the messages sent so far
SceneNow ==
    [currentTick |-> scene_currentTick, inputPayload |-> scene_inputPayload,
     body |-> scene_body, inputBuffer |-> scene_inputBuffer, sent |-> net_inputs]

\* fixedTick(time, delta) on those, with the keys and the offset as they are
SceneTicked(st) ==
    LET tick == st.currentTick + 1
        adjustedTick == AdjustedTick(tick, scene_serverTickOffset)
        payload == InputData(scene_keys.left, scene_keys.right, scene_keys.jump,
                             adjustedTick)
    IN  [currentTick |-> tick,
         inputPayload |-> payload,
         body |-> applyInput(st.body, payload),
         inputBuffer |-> CleanBuffer(Append(st.inputBuffer, payload), adjustedTick),
         sent |-> Append(st.sent, [from |-> LocalSession, input |-> payload])]

RECURSIVE SceneRunWaiting(_, _)
SceneRunWaiting(st, elapsedTime) ==
    IF elapsedTime >= FIXED_TIME_STEP /\ st.inputBuffer = <<>>
    THEN SceneRunWaiting(SceneTicked(st), elapsedTime - FIXED_TIME_STEP)
    ELSE [st |-> st, elapsedTime |-> elapsedTime]

RECURSIVE SceneRun(_, _)
\* while (this.elapsedTime >= this.fixedTimeStep) { elapsedTime -= fixedTimeStep; fixedTick }
SceneRun(st, elapsedTime) ==
    IF elapsedTime >= FIXED_TIME_STEP
    THEN SceneRun(SceneTicked(st), elapsedTime - FIXED_TIME_STEP)
    ELSE [st |-> st, elapsedTime |-> elapsedTime]

\* one call of fixedTick: an update() that finds exactly one step's worth of time
SceneFixedTick ==
    /\ scene_body # NoBody
    /\ LET st == SceneTicked(SceneNow)
       IN  /\ scene_currentTick' = st.currentTick
           /\ scene_inputPayload' = st.inputPayload
           /\ scene_body' = st.body
           /\ scene_inputBuffer' = st.inputBuffer
           /\ net_inputs' = st.sent
    /\ scene_clock' = scene_clock + FIXED_TIME_STEP
    /\ UNCHANGED <<scene_player, scene_keys, scene_elapsedTime, scene_lastReconciledTick,
                   scene_rtt, scene_serverTickOffset, scene_blend, scene_frame,
                   scene_entities, scene_now, scene_lastPingTime>>

\* The lerp factor of interpolateOtherPlayers, in tenths
LERP_REMOTE == 2

\* players.onAdd for another session: a plain sprite at the player's position, with
\* no serverX / serverY yet.  The first state the client receives holds its own
\* player too, and all its onAdd callbacks run in one pass, before any update().
SceneOnAddRemote(s, player) ==
    /\ scene_body # NoBody
    /\ s # LocalSession
    /\ s \notin DOMAIN scene_entities
    /\ scene_entities' =
          [t \in DOMAIN scene_entities \cup {s} |->
              IF t = s THEN [x |-> player.x, y |-> player.y, server |-> NoBody]
              ELSE scene_entities[t]]
    /\ UNCHANGED <<scene_body, scene_player, scene_keys, scene_currentTick,
                   scene_elapsedTime, scene_clock, scene_inputPayload, scene_inputBuffer,
                   scene_lastReconciledTick, scene_rtt, scene_serverTickOffset,
                   scene_blend, scene_frame, scene_now, scene_lastPingTime>>

\* $(player).onChange of a remote player: setData('serverX', ...), setData('serverY', ...)
SceneOnChangeRemote(s, player) ==
    /\ s \in DOMAIN scene_entities
    /\ scene_entities' =
          [scene_entities EXCEPT ![s].server = [x |-> player.x, y |-> player.y]]
    /\ UNCHANGED <<scene_body, scene_player, scene_keys, scene_currentTick,
                   scene_elapsedTime, scene_clock, scene_inputPayload, scene_inputBuffer,
                   scene_lastReconciledTick, scene_rtt, scene_serverTickOffset,
                   scene_blend, scene_frame, scene_now, scene_lastPingTime>>

\* players.onRemove: the sprite is destroyed and forgotten
SceneOnRemove(s) ==
    /\ s \in DOMAIN scene_entities
    /\ scene_entities' = [t \in DOMAIN scene_entities \ {s} |-> scene_entities[t]]
    /\ UNCHANGED <<scene_body, scene_player, scene_keys, scene_currentTick,
                   scene_elapsedTime, scene_clock, scene_inputPayload, scene_inputBuffer,
                   scene_lastReconciledTick, scene_rtt, scene_serverTickOffset,
                   scene_blend, scene_frame, scene_now, scene_lastPingTime>>

InterpolateEntityBeyond(entity) ==
    IF entity.server = NoBody THEN entity
    ELSE [entity EXCEPT !.x = Linear(entity.x, entity.server.x, 10 + LERP_REMOTE),
                        !.y = Linear(entity.y, entity.server.y, 10 + LERP_REMOTE)]

\* the body of the loop of interpolateOtherPlayers, for one sprite
InterpolateEntity(entity) ==
    IF entity.server = NoBody THEN entity
    ELSE [entity EXCEPT !.x = Linear(entity.x, entity.server.x, LERP_REMOTE),
                        !.y = Linear(entity.y, entity.server.y, LERP_REMOTE)]

\* interpolateOtherPlayers()
interpolateOtherPlayers(entities) ==
    [s \in DOMAIN entities |->
        IF s = LocalSession THEN entities[s] ELSE InterpolateEntity(entities[s])]

\* update(time, delta), delta in sixtieths of a millisecond
SceneUpdate(delta) ==
    /\ scene_clock' = scene_clock + delta
    /\ IF scene_body = NoBody
       THEN UNCHANGED <<scene_currentTick, scene_elapsedTime, scene_inputPayload,
                        scene_body, scene_inputBuffer, net_inputs, scene_entities>>
       ELSE LET r == SceneRun(SceneNow, scene_elapsedTime + delta)
            IN  /\ scene_elapsedTime' = r.elapsedTime
                /\ scene_currentTick' = r.st.currentTick
                /\ scene_inputPayload' = r.st.inputPayload
                /\ scene_body' = r.st.body
                /\ scene_inputBuffer' = r.st.inputBuffer
                /\ net_inputs' = r.st.sent
                /\ scene_entities' = interpolateOtherPlayers(scene_entities)
    /\ UNCHANGED <<scene_player, scene_keys, scene_lastReconciledTick, scene_rtt,
                   scene_serverTickOffset, scene_blend, scene_frame,
                   scene_now, scene_lastPingTime>>

SceneOnChangeResync(serverPlayer) ==
    /\ scene_player # NoBody
    /\ scene_player' = serverPlayer
    /\ scene_serverTickOffset' = serverPlayer.tick
    /\ UNCHANGED <<scene_body, scene_blend, scene_inputBuffer, scene_lastReconciledTick,
                   scene_keys, scene_currentTick, scene_elapsedTime, scene_clock,
                   scene_inputPayload, scene_rtt, scene_frame,
                   scene_entities, scene_now, scene_lastPingTime>>

\* $(player).onChange for the local player: a new authoritative state has been applied
SceneOnChange(serverPlayer) ==
    /\ scene_player # NoBody
    /\ scene_player' = serverPlayer
    /\ IF ShouldReconcile(serverPlayer, scene_lastReconciledTick)
       THEN LET r == reconcileWithServer(scene_body, scene_inputBuffer, serverPlayer)
            IN  /\ scene_body' = r.body
                /\ scene_blend' = r.blend
                /\ scene_inputBuffer' = r.inputBuffer
                /\ scene_lastReconciledTick' = r.lastReconciledTick
       ELSE UNCHANGED <<scene_body, scene_blend, scene_inputBuffer, scene_lastReconciledTick>>
    /\ UNCHANGED <<scene_keys, scene_currentTick, scene_elapsedTime, scene_clock,
                   scene_inputPayload, scene_rtt, scene_serverTickOffset, scene_frame,
                   scene_entities, scene_now, scene_lastPingTime>>

\* room.onMessage("pong"), rtt ms after the ping was sent
ScenePong(rtt) ==
    /\ scene_rtt' = rtt
    /\ scene_serverTickOffset' = TickOffset(rtt)
    /\ UNCHANGED <<scene_body, scene_player, scene_keys, scene_currentTick,
                   scene_elapsedTime, scene_clock, scene_inputPayload, scene_inputBuffer,
                   scene_lastReconciledTick, scene_blend, scene_frame,
                   scene_entities, scene_now, scene_lastPingTime>>

\* the callback of setInterval(..., 5000): this.room.send("ping", {})
ScenePing ==
    /\ scene_lastPingTime' = scene_now
    /\ net_pings' = net_pings + 1
    /\ net_sentAt' = Append(net_sentAt, scene_now)
    /\ UNCHANGED <<scene_body, scene_player, scene_keys, scene_currentTick,
                   scene_elapsedTime, scene_clock, scene_inputPayload, scene_inputBuffer,
                   scene_lastReconciledTick, scene_rtt, scene_serverTickOffset,
                   scene_blend, scene_frame, scene_entities, scene_now,
                   net_inputs, net_pongs>>

\* the transport hands a pong to the client, rtt ms after the last ping was sent
NetDeliverPong(rtt) ==
    /\ net_pongs > 0
    /\ net_pongs' = net_pongs - 1
    /\ net_sentAt' = Tail(net_sentAt)
    /\ ScenePong(rtt)
    /\ UNCHANGED <<net_inputs, net_pings>>

\* the sequence q without its i-th element
Without(q, i) == SubSeq(q, 1, i - 1) \o SubSeq(q, i + 1, Len(q))

\* a ping or a pong is lost with its connection's hiccup
NetLose ==
    /\ \/ /\ net_pings > 0
          /\ net_pings' = net_pings - 1
          /\ net_sentAt' = Without(net_sentAt, net_pongs + 1)
          /\ UNCHANGED net_pongs
       \/ /\ net_pongs > 0
          /\ net_pongs' = net_pongs - 1
          /\ net_sentAt' = Tail(net_sentAt)
          /\ UNCHANGED net_pings
    /\ UNCHANGED <<sceneVars, net_inputs>>

\* the period of the ping timer, in milliseconds
PING_INTERVAL == 5000

\* the ping timer has come round and its callback has not run yet
PingDue ==
    /\ scene_now > 0
    /\ scene_now % PING_INTERVAL = 0
    /\ scene_lastPingTime # scene_now

\* d milliseconds pass on the client; a due timer callback runs first
SceneClockAdvance(d) ==
    /\ ~PingDue
    /\ scene_now' = scene_now + d
    /\ UNCHANGED <<scene_body, scene_player, scene_keys, scene_currentTick,
                   scene_elapsedTime, scene_clock, scene_inputPayload, scene_inputBuffer,
                   scene_lastReconciledTick, scene_rtt, scene_serverTickOffset,
                   scene_blend, scene_frame, scene_entities, scene_lastPingTime>>

\* the transport hands a pong to the client now: endTime = Date.now() and
\* this.rtt = endTime - this.lastPingTime
NetDeliverPongNow == NetDeliverPong(scene_now - scene_lastPingTime)

\* The game loop steps the client's physics world once per frame
SceneWorldStep ==
    /\ scene_body # NoBody
    /\ scene_body' = EngineUpdate(scene_body)
    /\ scene_frame' = scene_frame + 1
    /\ UNCHANGED <<scene_player, scene_keys, scene_currentTick, scene_elapsedTime,
                   scene_clock, scene_inputPayload, scene_inputBuffer,
                   scene_lastReconciledTick, scene_rtt, scene_serverTickOffset, scene_blend,
                   scene_entities, scene_now, scene_lastPingTime>>

----------------------------------------------------------------------------
(* Initial state: the room after onCreate, the scene after its constructor *)

Empty == [s \in {} |-> <<>>]

RoomInit ==
    /\ room_currentTick = 0
    /\ room_elapsedTime = 0
    /\ room_clock = 0
    /\ room_players = Empty
    /\ room_playerBodies = Empty
    /\ room_drained = Empty
    /\ room_left = {}

SceneInit ==
    /\ scene_body = NoBody
    /\ scene_player = NoBody
    /\ scene_keys = [left |-> FALSE, right |-> FALSE, jump |-> FALSE]
    /\ scene_currentTick = 0
    /\ scene_elapsedTime = 0
    /\ scene_clock = 0
    /\ scene_inputPayload = InputData(FALSE, FALSE, FALSE, 0)
    /\ scene_inputBuffer = <<>>
    /\ scene_lastReconciledTick = 0
    /\ scene_rtt = 0
    /\ scene_serverTickOffset = 0
    /\ scene_blend = NoBody
    /\ scene_frame = 0
    /\ scene_entities = Empty
    /\ scene_now = 0
    /\ scene_lastPingTime = 0

\* nothing is in flight before the first message is sent
NetInit ==
    /\ net_inputs = <<>>
    /\ net_pings = 0
    /\ net_pongs = 0
    /\ net_sentAt = <<>>

Init == RoomInit /\ SceneInit /\ NetInit

----------------------------------------------------------------------------
(* Spec: one room, one connection, arbitrary input messages *)

\* the commands a client may send in this specification: two that differ only in
\* their keys, one due a tick later, one never due within MaxRoomTick steps
RoomCmds ==
    { InputData(FALSE, TRUE, FALSE, 1), InputData(TRUE, FALSE, FALSE, 1),
      InputData(FALSE, TRUE, FALSE, 2), InputData(FALSE, TRUE, FALSE, 6) }

RoomSessions == {"s1"}

QueueLen(s) == IF s \in Joined THEN Len(room_players[s].inputQueue) ELSE 0

Next ==
    \/ \E s \in RoomSessions : RoomJoin(s) /\ UNCHANGED <<sceneVars, netVars>>
    \/ \E s \in RoomSessions : RoomLeave(s) /\ UNCHANGED <<sceneVars, netVars>>
    \/ \E s \in RoomSessions, input \in RoomCmds :
          QueueLen(s) < MaxQueue /\ RoomInput(s, input) /\ UNCHANGED <<sceneVars, netVars>>
    \/ room_currentTick < MaxRoomTick /\ RoomFixedTick /\ UNCHANGED <<sceneVars, netVars>>

Spec == Init /\ [][Next]_vars

----------------------------------------------------------------------------
(* SpecStep: one player that jumps and runs, stepped again and again *)

StepCmds ==
    { InputData(FALSE, FALSE, TRUE, 1), InputData(FALSE, TRUE, FALSE, 2),
      InputData(TRUE, FALSE, TRUE, 3) }

NextStep ==
    \/ RoomJoin("s1") /\ UNCHANGED <<sceneVars, netVars>>
    \/ \E input \in StepCmds :
          QueueLen("s1") < MaxQueue /\ RoomInput("s1", input)
             /\ UNCHANGED <<sceneVars, netVars>>
    \/ room_currentTick < MaxRoomTick /\ RoomFixedTick /\ UNCHANGED <<sceneVars, netVars>>

SpecStep == Init /\ [][NextStep]_vars

----------------------------------------------------------------------------
(* SpecFlood: one client floods the room with commands dated far ahead and, once
   more than the high-water mark are queued, now and then sends one dated near
   the room's tick *)

FloodInput == InputData(FALSE, TRUE, FALSE, 1000)

NearInputs == { InputData(TRUE, FALSE, FALSE, 1) }

NoNearQueued(s) ==
    s \in Joined =>
        \A i \in DOMAIN room_players[s].inputQueue :
            room_players[s].inputQueue[i] = FloodInput

NextFlood ==
    \/ RoomJoin("s1") /\ UNCHANGED <<sceneVars, netVars>>
    \/ QueueLen("s1") < MaxFlood /\ RoomInput("s1", FloodInput) /\ UNCHANGED <<sceneVars, netVars>>
    \/ \E input \in NearInputs :
          /\ QueueLen("s1") < MaxFlood
          /\ QueueLen("s1") > ROOM_QUEUE_HIGH_WATER
          /\ NoNearQueued("s1")
          /\ RoomInput("s1", input)
          /\ UNCHANGED <<sceneVars, netVars>>
    \/ room_currentTick < MaxFloodTick /\ RoomFixedTick /\ UNCHANGED <<sceneVars, netVars>>

SpecFlood == Init /\ [][NextFlood]_vars

----------------------------------------------------------------------------
(* SpecScene: the client under arbitrary authoritative snapshots *)

\* The Player record as onJoin creates it
SpawnPlayer ==
    [x |-> SPAWN_X * FP, y |-> SPAWN_Y * FP, vx |-> 0, vy |-> 0,
     tick |-> 0, isGrounded |-> FALSE, lastProcessedTick |-> 0]

\* the key combinations of this specification
SceneFlags == { <<FALSE, FALSE, FALSE>>, <<FALSE, TRUE, TRUE>> }

KeysOf(f) == [left |-> f[1], right |-> f[2], jump |-> f[3]]

\* authoritative positions: 40 and 30 units from the spawn point
SnapshotPositions == { <<SPAWN_X + 40, SPAWN_Y>>, <<SPAWN_X + 18, SPAWN_Y + 24>> }

Snapshots ==
    { [x |-> p[1] * FP, y |-> p[2] * FP, vx |-> PLAYER_SPEED * FP, vy |-> 0,
       tick |-> t, isGrounded |-> FALSE, lastProcessedTick |-> t] :
          p \in SnapshotPositions, t \in 0..MaxSnapshotTick }

NextScene ==
    \/ SceneOnAdd(SpawnPlayer) /\ UNCHANGED <<roomVars, netVars>>
    \/ \E f \in SceneFlags : SceneKey(KeysOf(f)) /\ UNCHANGED <<roomVars, netVars>>
    \/ scene_currentTick < MaxSceneTick /\ SceneFixedTick
          /\ UNCHANGED <<roomVars, net_pings, net_pongs, net_sentAt>>
    \/ \E sp \in Snapshots : SceneOnChange(sp) /\ UNCHANGED <<roomVars, netVars>>
    \/ scene_frame < MaxFrames /\ SceneWorldStep /\ UNCHANGED <<roomVars, netVars>>

SpecScene == Init /\ [][NextScene]_vars

----------------------------------------------------------------------------
(* SpecBuffer: the client steps on with the keys held and no word from the room,
   after at most one pong *)

NextBuffer ==
    \/ SceneOnAdd(SpawnPlayer) /\ UNCHANGED <<roomVars, netVars>>
    \/ \E f \in SceneFlags : scene_currentTick = 0 /\ SceneKey(KeysOf(f)) /\ UNCHANGED <<roomVars, netVars>>
    \/ scene_currentTick = 0 /\ ScenePong(100) /\ UNCHANGED <<roomVars, netVars>>
    \/ scene_currentTick < MaxBufferTick /\ SceneFixedTick
          /\ UNCHANGED <<roomVars, net_pings, net_pongs, net_sentAt>>

SpecBuffer == Init /\ [][NextBuffer]_vars

----------------------------------------------------------------------------
(* SpecPing: the client steps while pings go out and pongs come back, late, early
   or never, and now and then an authoritative state arrives *)

\* round trips in ms: the offsets they give are 1, 3 and 7
RttSamples == { 20, 100, 250 }

\* the authoritative state after the room has consumed the command of tick 2
PingSnapshot ==
    [x |-> (SPAWN_X + 10) * FP, y |-> SPAWN_Y * FP, vx |-> 0, vy |-> 0,
     tick |-> 2, isGrounded |-> FALSE, lastProcessedTick |-> 2]

NextPing ==
    \/ SceneOnAdd(SpawnPlayer) /\ UNCHANGED <<roomVars, netVars>>
    \/ net_pings + net_pongs < MaxPings /\ ScenePing /\ UNCHANGED roomVars
    \/ RoomPing /\ UNCHANGED sceneVars
    \/ NetLose /\ UNCHANGED roomVars
    \/ \E rtt \in RttSamples : NetDeliverPong(rtt) /\ UNCHANGED roomVars
    \/ scene_currentTick < MaxPingTick /\ SceneFixedTick
          /\ UNCHANGED <<roomVars, net_pings, net_pongs, net_sentAt>>
    \/ SceneOnChange(PingSnapshot) /\ UNCHANGED <<roomVars, netVars>>
    \/ \E f \in SceneFlags : SceneKey(KeysOf(f)) /\ UNCHANGED <<roomVars, netVars>>

SpecPing == Init /\ [][NextPing]_vars

----------------------------------------------------------------------------
(* SpecNet: a room with two connections that come and go; their input messages and
   pings travel over the network and may reach the room before the join or after the
   leave *)

NetSessions == {"s1", "s2"}

NetCmds == { InputData(FALSE, TRUE, FALSE, 1), InputData(TRUE, FALSE, TRUE, 2) }

RECURSIVE Queued(_)
\* the number of commands queued for the sessions in S
Queued(S) ==
    IF S = {} THEN 0
    ELSE LET s == CHOOSE t \in S : TRUE IN QueueLen(s) + Queued(S \ {s})

NextNet ==
    \/ \E s \in NetSessions : RoomJoin(s) /\ UNCHANGED <<sceneVars, netVars>>
    \/ \E s \in NetSessions : RoomLeave(s) /\ UNCHANGED <<sceneVars, netVars>>
    \/ \E s \in NetSessions, input \in NetCmds :
          /\ Len(net_inputs) + Queued(Joined) < MaxNetLoad
          /\ ClientSend(s, input)
          /\ UNCHANGED <<roomVars, sceneVars>>
    \/ NetDeliverInput /\ UNCHANGED sceneVars
    \/ net_pings + net_pongs = 0 /\ ScenePing /\ UNCHANGED roomVars
    \/ RoomPing /\ UNCHANGED sceneVars
    \/ NetLose /\ UNCHANGED roomVars
    \/ room_currentTick < MaxNetTick /\ RoomFixedTick /\ UNCHANGED <<sceneVars, netVars>>

SpecNet == Init /\ [][NextNet]_vars

----------------------------------------------------------------------------
(* SpecLoop: the room and the local client, each driven by its own wall clock; the
   client's commands travel to the room, the room's state travels back *)

\* the deltas of the wall-clock updates: 10 ms (less than a step) and 40 ms (two
\* steps and more)
Deltas == { 10 * MS, 40 * MS }

\* no update starts at or after this time
LoopHorizon == (MaxLoopTick + 1) * FIXED_TIME_STEP

\* the synchronised fields of the room's Player record of session s
Replica(s) ==
    [x |-> room_players[s].x, y |-> room_players[s].y,
     vx |-> room_players[s].vx, vy |-> room_players[s].vy,
     tick |-> room_players[s].tick, isGrounded |-> room_players[s].isGrounded,
     lastProcessedTick |-> room_players[s].lastProcessedTick]

NextLoop ==
    \/ RoomJoin(LocalSession) /\ UNCHANGED <<sceneVars, netVars>>
    \/ RoomLeave(LocalSession) /\ UNCHANGED <<sceneVars, netVars>>
    \/ LocalSession \in Joined /\ SceneOnAdd(Replica(LocalSession))
          /\ UNCHANGED <<roomVars, netVars>>
    \/ \E d \in Deltas :
          room_clock < LoopHorizon /\ RoomUpdate(d) /\ UNCHANGED <<sceneVars, netVars>>
    \/ \E d \in Deltas :
          scene_clock < LoopHorizon /\ SceneUpdate(d)
             /\ UNCHANGED <<roomVars, net_pings, net_pongs, net_sentAt>>
    \/ NetDeliverInput /\ UNCHANGED sceneVars
    \/ LocalSession \in Joined /\ SceneOnChange(Replica(LocalSession))
          /\ UNCHANGED <<roomVars, netVars>>
    \/ net_pings + net_pongs = 0 /\ ScenePing /\ UNCHANGED roomVars
    \/ RoomPing /\ UNCHANGED sceneVars
    \/ NetLose /\ UNCHANGED roomVars
    \/ NetDeliverPong(100) /\ UNCHANGED roomVars

SpecLoop == Init /\ [][NextLoop]_vars

----------------------------------------------------------------------------
(* SpecRemote: the local client watches another player move *)

MaxRemoteFrames == 4

RemoteSessions == { "s2" }

\* the frame time of this specification: a frame holds one fixed step or none
RemoteDelta == 10 * MS

\* where the room reports the other player
RemotePositions == { <<SPAWN_X, SPAWN_Y>>, <<SPAWN_X + 50, SPAWN_Y - 40>> }

RemotePlayer(p) ==
    [x |-> p[1] * FP, y |-> p[2] * FP, vx |-> 0, vy |-> 0,
     tick |-> 0, isGrounded |-> FALSE, lastProcessedTick |-> 0]

NextRemote ==
    \/ SceneOnAdd(SpawnPlayer) /\ UNCHANGED <<roomVars, netVars>>
    \/ \E s \in RemoteSessions, p \in RemotePositions :
          SceneOnAddRemote(s, RemotePlayer(p)) /\ UNCHANGED <<roomVars, netVars>>
    \/ \E s \in RemoteSessions, p \in RemotePositions :
          SceneOnChangeRemote(s, RemotePlayer(p)) /\ UNCHANGED <<roomVars, netVars>>
    \/ \E s \in RemoteSessions : SceneOnRemove(s) /\ UNCHANGED <<roomVars, netVars>>
    \/ scene_clock < MaxRemoteFrames * RemoteDelta /\ SceneUpdate(RemoteDelta)
          /\ UNCHANGED <<roomVars, net_pings, net_pongs, net_sentAt>>

SpecRemote == Init /\ [][NextRemote]_vars

----------------------------------------------------------------------------
(* SpecTwin: the room and the local client in step.  Both start from the spawn
   state; the client sends the command of each of its steps and the room takes
   step n once that command has arrived, so that it consumes exactly the command
   the client applied in its own step n; the client takes its next step once the
   room has caught up.  The client's physics world is stepped by its game loop, at
   most once per fixed step so far. *)

MaxTwinTick == 2

\* every combination of left, right and jump
TwinFlags == { <<l, r, j>> : l \in BOOLEAN, r \in BOOLEAN, j \in BOOLEAN }

NextTwin ==
    \/ RoomJoin(LocalSession) /\ UNCHANGED <<sceneVars, netVars>>
    \/ /\ LocalSession \in Joined
       /\ room_currentTick = 0
       /\ SceneOnAdd(Replica(LocalSession))
       /\ UNCHANGED <<roomVars, netVars>>
    \/ \E f \in TwinFlags : SceneKey(KeysOf(f)) /\ UNCHANGED <<roomVars, netVars>>
    \/ /\ scene_currentTick < MaxTwinTick
       /\ scene_currentTick = room_currentTick
       /\ SceneFixedTick
       /\ UNCHANGED <<roomVars, net_pings, net_pongs, net_sentAt>>
    \/ scene_frame < scene_currentTick /\ SceneWorldStep /\ UNCHANGED <<roomVars, netVars>>
    \/ NetDeliverInput /\ UNCHANGED sceneVars
    \/ /\ room_currentTick < scene_currentTick
       /\ net_inputs = <<>>
       /\ RoomFixedTick
       /\ UNCHANGED <<sceneVars, netVars>>

SpecTwin == Init /\ [][NextTwin]_vars

----------------------------------------------------------------------------
(* SpecClock: the ping timer against the client's clock.  The room answers every
   ping; the transport delivers in order, loses nothing here, and takes as long
   as it likes. *)

MaxClockSteps == 16

\* the grain of the clock of this specification, in milliseconds
ClockStep == 1000

NextClock ==
    \/ scene_now < MaxClockSteps * ClockStep /\ SceneClockAdvance(ClockStep)
          /\ UNCHANGED <<roomVars, netVars>>
    \/ PingDue /\ ScenePing /\ UNCHANGED roomVars
    \/ RoomPing /\ UNCHANGED sceneVars
    \/ NetDeliverPongNow /\ UNCHANGED roomVars

SpecClock == Init /\ [][NextClock]_vars

----------------------------------------------------------------------------
(* SpecDrift: the client steps on unacknowledged while its measured round trip
   changes: a long one is measured before the first step, a short one at some
   later time *)

MaxDriftTick == 102

\* round trips in ms: 2000 gives an offset of 60, 20 an offset of 1
LongRtt == 2000
ShortRtt == 20

NextDrift ==
    \/ SceneOnAdd(SpawnPlayer) /\ UNCHANGED <<roomVars, netVars>>
    \/ net_pings + net_pongs = 0 /\ ScenePing /\ UNCHANGED roomVars
    \/ RoomPing /\ UNCHANGED sceneVars
    \/ /\ scene_currentTick = 0
       /\ scene_rtt = 0
       /\ NetDeliverPong(LongRtt)
       /\ UNCHANGED roomVars
    \/ scene_rtt = LongRtt /\ NetDeliverPong(ShortRtt) /\ UNCHANGED roomVars
    \/ scene_currentTick < MaxDriftTick /\ SceneFixedTick
          /\ UNCHANGED <<roomVars, net_pings, net_pongs, net_sentAt>>

SpecDrift == Init /\ [][NextDrift]_vars

----------------------------------------------------------------------------
(* Claims about the room's queue *)

IsFixedTickStep == room_currentTick' = room_currentTick + 1

Count(q, c) == Cardinality({ i \in DOMAIN q : q[i] = c })

AscendingTicks(q) == \A i, j \in DOMAIN q : i < j => q[i].tick <= q[j].tick

\* C1: on the server a player's lastProcessedTick never decreases, whatever the
\* order of the ticks of the commands that arrive.
C1_WatermarkMonotonic ==
    [][\A s \in Joined \cap DOMAIN room_players' :
          room_players'[s].lastProcessedTick >= room_players[s].lastProcessedTick]_vars

\* C2: within one fixedTick the commands consumed for a player are applied in
\* ascending tick order, whatever the order in which they arrived.
C2_AppliedAscending ==
    \A s \in Joined : AscendingTicks(room_drained[s].applied)

\* a step that began with a queue out of tick order and applied at least two of them
C2_Witness ==
    \E s \in Joined :
        /\ ~AscendingTicks(room_drained[s].before)
        /\ \E i, j \in DOMAIN room_drained[s].applied :
              room_drained[s].applied[i].tick < room_drained[s].applied[j].tick

\* C3: a fixedTick consumes exactly the queued commands with tick <= currentTick:
\* it applies and removes no command dated later, and leaves none dated earlier.
C3_ConsumesExactlyDue ==
    [][IsFixedTickStep =>
        \A s \in Joined :
            LET before  == room_players[s].inputQueue
                after   == room_players'[s].inputQueue
                applied == room_drained'[s].applied
            IN  /\ \A i \in DOMAIN applied : applied[i].tick <= room_currentTick'
                /\ \A i \in DOMAIN after : after[i].tick > room_currentTick'
                /\ \A i \in DOMAIN before :
                      /\ before[i].tick <= room_currentTick'
                            => Count(applied, before[i]) = Count(before, before[i])
                      /\ before[i].tick > room_currentTick'
                            => Count(after, before[i]) = Count(before, before[i])
                /\ Len(applied) + Len(after) = Len(before)]_vars

\* a step that began with more than 20 commands, a due one behind later-dated ones:
\* the due one was applied and more than 20 later-dated ones are still queued
C3_Witness ==
    \E s \in Joined :
        LET d == room_drained[s]
        IN  /\ room_players[s].tick = room_currentTick
            /\ Len(d.applied) = 1
            /\ \E i, j \in DOMAIN d.before :
                  i < j /\ d.before[i].tick > room_currentTick
                        /\ d.before[j].tick <= room_currentTick
            /\ Len(room_players[s].inputQueue) > ROOM_QUEUE_HIGH_WATER
            /\ Len(room_players[s].inputQueue) = Len(d.before) - 1

\* C4: of two commands with the same tick only the first one enqueued is applied:
\* a drain applies at most one command per tick value.
C4_OneCommandPerTick ==
    \A s \in Joined :
        \A i, j \in DOMAIN room_drained[s].applied :
            i # j => room_drained[s].applied[i].tick # room_drained[s].applied[j].tick

\* C6: after every fixedTick a player's inputQueue is no longer than a bound fixed
\* by the high-water mark and the retention window.
C6_QueueBounded ==
    [][IsFixedTickStep =>
        \A s \in Joined :
            Len(room_players'[s].inputQueue) <= ROOM_QUEUE_HIGH_WATER + ROOM_QUEUE_RETENTION]_vars

----------------------------------------------------------------------------
(* Claims about the client's buffer and its reconciliation *)

IsReconcileStep == scene_lastReconciledTick' # scene_lastReconciledTick

\* the squared distance between a body and an authoritative position, and n units squared
Dist2To(body, p) == Distance2(body.x, body.y, p.x, p.y)
Units2(n) == (n * FP) * (n * FP)

SamePosition(a, b) == a.x = b.x /\ a.y = b.y

\* C5 as stated: after 150 commands with a constant offset and no acknowledgement the
\* buffer holds only commands with tick > currentTick - 50, currentTick the latest tick.
C5_OnlyWindowAfter150 ==
    scene_currentTick = 150 =>
        \A i \in DOMAIN scene_inputBuffer :
            scene_inputBuffer[i].tick > scene_inputPayload.tick - SCENE_BUFFER_RETENTION

\* C5 as amended: after 150 such commands the buffer holds the 99 latest commands,
\* ticks currentTick - 98 .. currentTick: the cleanup ran once, at the 101st command.
C5_Latest99After150 ==
    scene_currentTick = 150 =>
        /\ Len(scene_inputBuffer) = SCENE_BUFFER_HIGH_WATER - 1
        /\ \A i \in DOMAIN scene_inputBuffer :
              scene_inputBuffer[i].tick
                 = scene_inputPayload.tick - (SCENE_BUFFER_HIGH_WATER - 1) + i

\* 150 commands enqueued under a tick offset of 3
C5_Witness ==
    /\ scene_currentTick = 150
    /\ scene_serverTickOffset = 3
    /\ scene_inputPayload.tick = 153
    /\ \E i \in DOMAIN scene_inputBuffer :
          scene_inputBuffer[i].tick <= scene_inputPayload.tick - SCENE_BUFFER_RETENTION

\* the body still stands where the last pass left it, and that pass began n units
\* from the authoritative position it was given
AfterPassFrom(n) ==
    /\ scene_blend # NoBody
    /\ Dist2To(scene_blend.before, scene_blend.against) = Units2(n)
    /\ SamePosition(scene_body, scene_blend.blended)

\* a pass from 40 units leaves 20; the pass that follows it, against the same
\* authoritative position, leaves `then` units
TwoPasses(then) ==
    IsReconcileStep =>
        /\ Dist2To(scene_body, scene_player') = Units2(40)
              => Dist2To(scene_body', scene_player') = Units2(20)
        /\ AfterPassFrom(40) /\ SamePosition(scene_player', scene_blend.against)
              => Dist2To(scene_body', scene_player') = Units2(then)

\* C7 as stated: from 40 units one pass leaves exactly 20, and the next pass against
\* the same authoritative position halves the distance again, to 10.
C7_HalvesTwice == [][TwoPasses(10)]_vars

\* C7 as amended: from 40 units one pass leaves exactly 20; the next pass against the
\* same authoritative position starts within the threshold, blends by 0.2, and leaves 16.
C7_HalfThenFifth == [][TwoPasses(16)]_vars

\* a second pass that began 20 units out, where a first pass had left the body, and left 16
C7_Witness ==
    /\ scene_blend # NoBody
    /\ scene_lastReconciledTick >= 2
    /\ Dist2To(scene_blend.before, scene_blend.against) = Units2(20)
    /\ Dist2To(scene_blend.blended, scene_blend.against) = Units2(16)
    /\ scene_blend.against.x = (SPAWN_X + 40) * FP
    /\ scene_blend.before.x = (SPAWN_X + 20) * FP

\* v is old + (f / 10) * (target - old), to within one fixed-point step
IsLerp(v, old, target, f) ==
    /\ f * (target - old) - 10 * (v - old) >= 0
    /\ f * (target - old) - 10 * (v - old) < 10

\* C8: a pass blends by 0.5 when the distance is strictly greater than 30 and by 0.2
\* otherwise (exactly 30 included); x, y, vx and vy are all set to
\* old + factor * (authoritative - old) with that one factor, before any replay.
C8_BlendByDistance ==
    [][IsReconcileStep =>
        LET f == IF Dist2To(scene_body, scene_player') > Units2(RECONCILE_DISTANCE)
                 THEN 5 ELSE 2
            b == scene_blend'.blended
        IN  /\ IsLerp(b.x, scene_body.x, scene_player'.x, f)
            /\ IsLerp(b.y, scene_body.y, scene_player'.y, f)
            /\ IsLerp(b.vx, scene_body.vx, scene_player'.vx, f)
            /\ IsLerp(b.vy, scene_body.vy, scene_player'.vy, f)]_vars

\* a pass that began exactly 30 units out and moved the body a fifth of the way
C8_Witness ==
    /\ scene_blend # NoBody
    /\ Dist2To(scene_blend.before, scene_blend.against) = Units2(RECONCILE_DISTANCE)
    /\ 5 * (scene_blend.blended.x - scene_blend.before.x)
          = scene_blend.against.x - scene_blend.before.x
    /\ scene_blend.blended.x # scene_blend.before.x
    /\ scene_blend.blended.vx # scene_blend.before.vx

\* C9: a snapshot of the local player whose lastProcessedTick is <= lastReconciledTick
\* changes neither the body, nor the inputBuffer, nor lastReconciledTick.
C9_StaleSnapshotIgnored ==
    [][(/\ scene_player # NoBody
        /\ scene_player' # scene_player
        /\ scene_player'.lastProcessedTick <= scene_lastReconciledTick)
       => UNCHANGED <<scene_body, scene_inputBuffer, scene_lastReconciledTick>>]_vars

\* a stale snapshot has arrived: the body is away from it and commands are pending
C9_Witness ==
    /\ scene_player # NoBody
    /\ scene_lastReconciledTick > 0
    /\ scene_player.lastProcessedTick <= scene_lastReconciledTick
    /\ scene_player # scene_blend.against
    /\ ~SamePosition(scene_player, scene_body)
    /\ scene_inputBuffer # <<>>

\* C10: after a pass lastReconciledTick is the snapshot's lastProcessedTick and the
\* inputBuffer holds exactly the commands it held before whose tick is greater.
C10_BufferAfterPass ==
    [][IsReconcileStep =>
        LET lpt == scene_player'.lastProcessedTick
            old == scene_inputBuffer
            new == scene_inputBuffer'
        IN  /\ scene_lastReconciledTick' = lpt
            /\ \A i \in DOMAIN new : new[i].tick > lpt
            /\ \A i \in DOMAIN old :
                  old[i].tick > lpt => Count(new, old[i]) = Count(old, old[i])
            /\ Len(new) = Cardinality({ i \in DOMAIN old : old[i].tick > lpt })]_vars

\* a pass has dropped an acknowledged command and kept a later one
C10_Witness ==
    /\ scene_blend # NoBody
    /\ scene_lastReconciledTick = scene_blend.against.lastProcessedTick
    /\ scene_lastReconciledTick = 1
    /\ scene_currentTick = 2
    /\ Len(scene_inputBuffer) = 1
    /\ scene_inputBuffer[1].tick = 2

----------------------------------------------------------------------------
(* Claims about the client's fixed step and its tick offset *)

IsSceneFixedStep == scene_currentTick' = scene_currentTick + 1

\* C11: the client's inputBuffer is sorted by ascending tick in every reachable state,
\* also when the tick offset rises or falls between two fixed steps.
C11_BufferAscending == AscendingTicks(scene_inputBuffer)

\* C12: after a pong serverTickOffset is rtt / (2 * (1000 / 60)) rounded to the nearest
\* whole number, halves upwards (3 for an rtt of 100 ms).
C12_OffsetIsRounded ==
    scene_serverTickOffset = (scene_rtt * 60 + 1000) \div (2 * 1000)

\* C13: every fixed step of the client makes one command, with the keys as they are and
\* tick = currentTick (after the increment) + serverTickOffset; that command is appended
\* to the inputBuffer, sent once to the room and applied once to the local body.
C13_OneCommandPerStep ==
    [][IsSceneFixedStep =>
        LET cmd == scene_inputPayload'
            velocityX == IF cmd.left THEN -PLAYER_SPEED
                         ELSE IF cmd.right THEN PLAYER_SPEED ELSE 0
            jumps == IF cmd.jump /\ isPlayerGrounded(scene_body) THEN 1 ELSE 0
        IN  /\ cmd.tick = scene_currentTick' + scene_serverTickOffset
            /\ cmd.left = scene_keys.left
            /\ cmd.right = scene_keys.right
            /\ cmd.jump = scene_keys.jump
            /\ scene_inputBuffer' # <<>>
            /\ scene_inputBuffer'[Len(scene_inputBuffer')] = cmd
            /\ Count(scene_inputBuffer', cmd) = Count(scene_inputBuffer, cmd) + 1
            /\ net_inputs' = Append(net_inputs, [from |-> LocalSession, input |-> cmd])
            /\ scene_body'.vx = velocityX * FP
            /\ scene_body'.fy = scene_body.fy - jumps * JUMP_FORCE
            /\ scene_body'.x = scene_body.x
            /\ scene_body'.y = scene_body.y
            /\ scene_body'.vy = scene_body.vy]_vars

\* the second step ran under an offset of 3 with the jump key down: its command,
\* dated 5, is the last one buffered and the last one sent
C13_Witness ==
    /\ scene_currentTick = 2
    /\ scene_serverTickOffset = 3
    /\ scene_inputPayload = InputData(FALSE, TRUE, TRUE, 5)
    /\ Len(net_inputs) = 2
    /\ net_inputs[2] = [from |-> LocalSession, input |-> scene_inputPayload]
    /\ scene_inputBuffer # <<>>
    /\ scene_inputBuffer[Len(scene_inputBuffer)] = scene_inputPayload
    /\ scene_body.vx = PLAYER_SPEED * FP

\* C14: rtt and serverTickOffset are 0 at first and change only when a pong is taken
\* from the connection: no fixed step, reconciliation, key, ping or loss of a ping or
\* pong changes them; and a fixed step can run whenever the local player exists.
C14_OffsetOnlyByPong ==
    /\ scene_rtt = 0 /\ scene_serverTickOffset = 0
    /\ [][(scene_rtt' # scene_rtt \/ scene_serverTickOffset' # scene_serverTickOffset)
             => net_pongs' = net_pongs - 1]_vars
    /\ [](scene_body # NoBody => ENABLED SceneFixedTick)

\* an offset of 3 has outlived three fixed steps and a reconciliation, with nothing
\* in flight
C14_Witness ==
    /\ scene_serverTickOffset = 3
    /\ scene_rtt = 100
    /\ scene_currentTick = 3
    /\ scene_lastReconciledTick = 2
    /\ Len(scene_inputBuffer) = 3
    /\ \A i \in DOMAIN scene_inputBuffer : scene_inputBuffer[i].tick = i + 3
    /\ net_pings = 0 /\ net_pongs = 0

----------------------------------------------------------------------------
(* Claims about joining, leaving and messages from strangers *)

\* an input message is taken from the connection and handed to onMessage(0)
IsInputDelivery == net_inputs # <<>> /\ net_inputs' = Tail(net_inputs)

\* C15: an input message whose sender has no player record (not joined, or left) is
\* dropped: no queue, record, body or tick changes.
C15_StrangerInputDropped ==
    [][(IsInputDelivery /\ Head(net_inputs).from \notin Joined)
          => UNCHANGED roomVars]_vars

\* a message of a connection that has left is about to reach the room, where another
\* player has been moving
C15_Witness ==
    /\ net_inputs # <<>>
    /\ Head(net_inputs).from \in room_left
    /\ \E s \in Joined : room_players[s].x # SPAWN_X * FP

\* C16: onJoin creates one record and one body for the joining session, at (50, 500),
\* at rest, lastProcessedTick 0, tick the room's currentTick, the queue empty, and
\* leaves every other player's record and body as they were.
C16_JoinCreatesAtSpawn ==
    [][\A s \in DOMAIN room_players' \ Joined :
          /\ DOMAIN room_players' = Joined \cup {s}
          /\ DOMAIN room_playerBodies' = DOMAIN room_playerBodies \cup {s}
          /\ s \notin DOMAIN room_playerBodies
          /\ room_players'[s].x = 50 * FP /\ room_players'[s].y = 500 * FP
          /\ room_players'[s].vx = 0 /\ room_players'[s].vy = 0
          /\ room_players'[s].lastProcessedTick = 0
          /\ room_players'[s].tick = room_currentTick
          /\ room_players'[s].inputQueue = <<>>
          /\ room_playerBodies'[s].x = 50 * FP /\ room_playerBodies'[s].y = 500 * FP
          /\ room_playerBodies'[s].vx = 0 /\ room_playerBodies'[s].vy = 0
          /\ \A t \in Joined :
                /\ room_players'[t] = room_players[t]
                /\ room_playerBodies'[t] = room_playerBodies[t]
          /\ room_currentTick' = room_currentTick]_vars

\* the second player has just joined, at tick 1 or later, a room whose first
\* player has moved away from the spawn point and has a command queued
C16_Witness ==
    /\ Joined = {"s1", "s2"}
    /\ room_currentTick >= 1
    /\ room_players["s2"].tick = room_currentTick
    /\ room_players["s2"].x = SPAWN_X * FP
    /\ room_players["s2"].inputQueue = <<>>
    /\ room_players["s1"].x # SPAWN_X * FP
    /\ room_players["s1"].inputQueue # <<>>

\* C17: between any two handlers the sessions with a body are the sessions with a
\* player record, and a session that has left has neither; no fixedTick and no
\* input message brings them back.
C17_NoPartialJoinOrLeave ==
    /\ DOMAIN room_playerBodies = DOMAIN room_players
    /\ DOMAIN room_drained = DOMAIN room_players
    /\ room_left \cap DOMAIN room_players = {}
    /\ room_left \cap DOMAIN room_playerBodies = {}

\* one player has left, its last message is still on the way, and the room has
\* stepped on with the other player
C17_Witness ==
    /\ room_left = {"s1"}
    /\ Joined = {"s2"}
    /\ room_players["s2"].tick = room_currentTick
    /\ room_currentTick >= 1
    /\ room_players["s2"].x # SPAWN_X * FP
    /\ net_inputs # <<>>
    /\ Head(net_inputs).from = "s1"

----------------------------------------------------------------------------
(* Claims about the two fixed-step loops *)

\* the fixed steps an update with delta d owes an accumulator that holds acc
StepsOwed(acc, d) == (acc + d) \div FIXED_TIME_STEP

\* the room's update callback ran: floor((acc + d) / step) fixed steps, 0 <= acc' < step
RoomLoopSteps ==
    room_clock' # room_clock =>
        /\ room_currentTick' - room_currentTick
              = StepsOwed(room_elapsedTime, room_clock' - room_clock)
        /\ room_elapsedTime' >= 0
        /\ room_elapsedTime' < FIXED_TIME_STEP

\* the scene's update ran: the same, each fixed step sending one command
SceneLoopSteps ==
    /\ scene_currentTick' - scene_currentTick
          = StepsOwed(scene_elapsedTime, scene_clock' - scene_clock)
    /\ Len(net_inputs') - Len(net_inputs) = scene_currentTick' - scene_currentTick
    /\ scene_elapsedTime' >= 0
    /\ scene_elapsedTime' < FIXED_TIME_STEP

\* C18 as stated: on the room and on the client alike, one wall-clock update with
\* delta d runs exactly floor((acc + d) / fixedTimeStep) fixed steps and leaves
\* 0 <= acc < fixedTimeStep.
C18_StepsPerUpdate ==
    [][/\ RoomLoopSteps
       /\ scene_clock' # scene_clock => SceneLoopSteps]_vars

\* C18 as amended: so it is on the room, and on the client once its local player
\* exists; before that the client's update returns at once: it runs no fixed step
\* and leaves the accumulator as it was.
C18_StepsPerUpdateOncePlaying ==
    [][/\ RoomLoopSteps
       /\ scene_clock' # scene_clock =>
             IF scene_body # NoBody
             THEN SceneLoopSteps
             ELSE UNCHANGED <<scene_currentTick, scene_elapsedTime, net_inputs>>]_vars

\* each loop has run two fixed steps in one update of 40 ms and kept the 6.67 ms left
\* over; the client had let 10 ms pass before its player existed
C18_Witness ==
    /\ room_clock = 40 * MS
    /\ room_currentTick = 2
    /\ room_elapsedTime = 40 * MS - 2 * FIXED_TIME_STEP
    /\ scene_clock = 50 * MS
    /\ scene_currentTick = 2
    /\ scene_elapsedTime = 40 * MS - 2 * FIXED_TIME_STEP

\* C19: on the room and on the client currentTick starts at 0, goes up by one with every
\* fixed step (one step's worth of time leaves the accumulator, and on the client one
\* command is sent, per tick) and no other event (join, leave, input message, ping,
\* pong, reconciliation) changes it.
C19_TickCountsSteps ==
    /\ room_currentTick = 0 /\ scene_currentTick = 0
    /\ [][/\ room_currentTick' >= room_currentTick
          /\ room_clock' = room_clock => room_currentTick' = room_currentTick
          /\ (room_currentTick' - room_currentTick) * FIXED_TIME_STEP
                = room_elapsedTime + (room_clock' - room_clock) - room_elapsedTime'
          /\ scene_currentTick' >= scene_currentTick
          /\ scene_clock' = scene_clock => scene_currentTick' = scene_currentTick
          /\ scene_currentTick' # scene_currentTick =>
                /\ (scene_currentTick' - scene_currentTick) * FIXED_TIME_STEP
                      = scene_elapsedTime + (scene_clock' - scene_clock) - scene_elapsedTime'
                /\ Len(net_inputs') - Len(net_inputs)
                      = scene_currentTick' - scene_currentTick]_vars

\* both loops have stepped, the player has come and gone, a pong has been taken
\* and a reconciliation has run: the ticks still stand
C19_Witness ==
    /\ room_currentTick >= 2
    /\ scene_currentTick >= 2
    /\ LocalSession \in room_left
    /\ scene_serverTickOffset = 3
    /\ scene_lastReconciledTick >= 1

----------------------------------------------------------------------------
(* Determinism of the room's step *)

\* the body an entity state stands for: its position and velocity, no force pending
BodyOf(player) ==
    [x |-> player.x, y |-> player.y, vx |-> player.vx, vy |-> player.vy, fy |-> 0]

\* the entity state of a player record
EntityState(player) ==
    [x |-> player.x, y |-> player.y, vx |-> player.vx, vy |-> player.vy,
     isGrounded |-> player.isGrounded, tick |-> player.tick,
     lastProcessedTick |-> player.lastProcessedTick]

MaxTick(q) ==
    CHOOSE t \in { q[i].tick : i \in DOMAIN q } : \A i \in DOMAIN q : q[i].tick <= t

\* C22: after a server fixedTick a player's lastProcessedTick is the highest tick
\* among the commands consumed for that player in that step, and is what it was
\* before the step when the step consumed no command.
C22_WatermarkIsHighestConsumed ==
    [][IsFixedTickStep =>
        \A s \in Joined :
            room_players'[s].lastProcessedTick =
                IF room_drained'[s].applied = <<>>
                THEN room_players[s].lastProcessedTick
                ELSE MaxTick(room_drained'[s].applied)]_vars

\* a step consumed commands of two ticks that had arrived latest first
C22_Witness ==
    \E s \in Joined :
        /\ Len(room_drained[s].applied) = 2
        /\ room_drained[s].before[1].tick > room_drained[s].before[2].tick
        /\ room_players[s].lastProcessedTick = MaxTick(room_drained[s].applied)
        /\ room_players[s].lastProcessedTick = room_currentTick

\* v lies between a and b, ends included
Between(v, a, b) == (a <= v /\ v <= b) \/ (b <= v /\ v <= a)

C24_AppliedOnceWhenDue ==
    [][\A s \in Joined \cap DOMAIN room_players' :
          LET before  == room_players[s].inputQueue
              after   == room_players'[s].inputQueue
          IN  IF IsFixedTickStep
              THEN /\ room_drained'[s].removed = <<>>
                   /\ Len(room_drained'[s].applied) + Len(after) = Len(before)
                   /\ \A i \in DOMAIN before :
                         LET c == before[i]
                         IN  IF c.tick <= room_currentTick'
                             THEN /\ Count(room_drained'[s].applied, c) = Count(before, c)
                                  /\ Count(after, c) = 0
                             ELSE /\ Count(room_drained'[s].applied, c) = 0
                                  /\ Count(after, c) = Count(before, c)
              ELSE \/ after = before
                   \/ \E c \in {after[Len(after)]} : after = Append(before, c)]_vars

\* a command dated 1 that arrived after the first step, behind more than 20 commands
\* dated far ahead, was applied by the second step, which removed nothing else
C24_Witness ==
    \E s \in Joined :
        LET d == room_drained[s]
        IN  /\ room_currentTick = 2
            /\ room_players[s].tick = 2
            /\ Len(d.applied) = 1
            /\ d.applied[1].tick = 1
            /\ d.before[Len(d.before)] = d.applied[1]
            /\ d.removed = <<>>
            /\ Len(room_players[s].inputQueue) > ROOM_QUEUE_HIGH_WATER
            /\ room_players[s].lastProcessedTick = 1

----------------------------------------------------------------------------
(* Claims about the two loops side by side *)

\* both peers have taken the same number of steps on the same commands, the client
\* as many physics frames as fixed steps, and nothing is in flight or queued
TwinsInStep ==
    /\ LocalSession \in Joined
    /\ scene_body # NoBody
    /\ room_currentTick = scene_currentTick
    /\ scene_frame = scene_currentTick
    /\ net_inputs = <<>>
    /\ room_players[LocalSession].inputQueue = <<>>

\* C21: from the same starting entity state, on the same ordered commands and with
\* the same fixed interval, the room's loop and the client's loop arrive at the same
\* position, velocity and grounded state of the entity.
C21_LoopsAgree ==
    TwinsInStep =>
        LET body == room_playerBodies[LocalSession]
        IN  /\ scene_body.x = body.x
            /\ scene_body.y = body.y
            /\ scene_body.vx = body.vx
            /\ scene_body.vy = body.vy
            /\ isPlayerGrounded(scene_body) = isGrounded(body)

\* the horizontal velocity a command is said to ask for
StatedVelocityX(input) ==
    IF input.left THEN -PLAYER_SPEED
    ELSE IF input.right THEN PLAYER_SPEED
    ELSE 0

\* C25: applying a command sets the horizontal velocity to -PLAYER_SPEED if left is
\* set (whatever right is), else to +PLAYER_SPEED if right is set, else to 0, and
\* leaves the vertical velocity as it was; the room's drain loop and the client's
\* applyInput compute the same value for every combination of flags.
C25_VelocityByFlags ==
    [][/\ IsFixedTickStep =>
            \A s \in Joined :
                LET applied == room_drained'[s].applied
                IN  /\ \A i \in DOMAIN applied :
                          LET b == ApplyRoomInput(room_playerBodies[s], applied[i],
                                                  room_players'[s].isGrounded)
                          IN  /\ b.vx = StatedVelocityX(applied[i]) * FP
                              /\ b.vy = room_playerBodies[s].vy
                              /\ RoomVelocityX(applied[i]) = SceneVelocityX(applied[i])
                    /\ applied # <<>> =>
                          room_playerBodies'[s].vx
                              = StatedVelocityX(applied[Len(applied)]) * FP
       /\ IsSceneFixedStep =>
            /\ scene_body'.vx = StatedVelocityX(scene_inputPayload') * FP
            /\ scene_body'.vy = scene_body.vy
            /\ RoomVelocityX(scene_inputPayload') = SceneVelocityX(scene_inputPayload')]_vars

\* the client applied a command with left and right both set, the room consumed it,
\* and both bodies move left at PLAYER_SPEED
C25_Witness ==
    /\ LocalSession \in Joined
    /\ scene_body # NoBody
    /\ scene_inputPayload.left /\ scene_inputPayload.right
    /\ scene_body.vx = -PLAYER_SPEED * FP
    /\ room_drained[LocalSession].applied = <<scene_inputPayload>>
    /\ room_playerBodies[LocalSession].vx = -PLAYER_SPEED * FP

\* C26: a command with both left and right set leaves the body with no horizontal
\* velocity once it is applied.
C26_BothPressedIsZero ==
    [][/\ IsFixedTickStep =>
            \A s \in Joined :
                LET applied == room_drained'[s].applied
                IN  (/\ applied # <<>>
                     /\ applied[Len(applied)].left
                     /\ applied[Len(applied)].right) => room_playerBodies'[s].vx = 0
       /\ (IsSceneFixedStep /\ scene_inputPayload'.left /\ scene_inputPayload'.right)
            => scene_body'.vx = 0]_vars

\* the number of commands of q with jump set
JumpsIn(q) == Cardinality({ i \in DOMAIN q : q[i].jump })

\* C27: a jump impulse is applied only for a consumed command with jump set, and only
\* if the grounded flag computed at the start of the step, before any command is
\* applied, was true: with the flag false no command of the step produces an impulse.
C27_JumpOnlyWhenGrounded ==
    [][/\ IsFixedTickStep =>
            \A s \in Joined :
                /\ room_players'[s].isGrounded = isGrounded(room_playerBodies[s])
                /\ room_drained'[s].force =
                      IF room_players'[s].isGrounded
                      THEN -JUMP_FORCE * JumpsIn(room_drained'[s].applied)
                      ELSE 0
       /\ IsSceneFixedStep =>
            scene_body'.fy =
                IF scene_inputPayload'.jump /\ isPlayerGrounded(scene_body)
                THEN scene_body.fy - JUMP_FORCE
                ELSE scene_body.fy]_vars

\* both peers fell for a step and then consumed a command with jump set while not
\* grounded: neither body received a force
C27_Witness ==
    /\ LocalSession \in Joined
    /\ scene_body # NoBody
    /\ room_currentTick = 2
    /\ room_drained[LocalSession].applied = <<scene_inputPayload>>
    /\ scene_inputPayload.jump
    /\ ~room_players[LocalSession].isGrounded
    /\ room_drained[LocalSession].force = 0
    /\ scene_frame = 1
    /\ ~isPlayerGrounded(scene_body)
    /\ scene_body.fy = 0
    /\ scene_body.vy > 0

\* the body touches static geometry: it overlaps a ground body from above or the
\* short downward ray from its centre hits one
OnGround(body) ==
    \/ \E g \in LEVEL_CONFIG :
          /\ Collides(body, g)
          /\ (body.y + (PLAYER_SIZE \div 2) * FP) * 2
                <= (2 * g.y - g.height) * FP + 2 * GROUND_THRESHOLD * FP
    \/ \E g \in LEVEL_CONFIG : RayHits(body, g)

\* C28: the grounded flag is true only when the body rests on static geometry; an
\* airborne body with no contact and no ray hit is never reported grounded, whatever
\* its vertical velocity, so no jump is permitted in mid-air.
C28_GroundedOnlyOnGround ==
    [][/\ IsFixedTickStep =>
            \A s \in Joined :
                /\ room_players'[s].isGrounded => OnGround(room_playerBodies[s])
                /\ room_drained'[s].force # 0 => OnGround(room_playerBodies[s])
       /\ IsSceneFixedStep =>
            /\ isPlayerGrounded(scene_body) => OnGround(scene_body)
            /\ scene_body'.fy # scene_body.fy => OnGround(scene_body)]_vars

RECURSIVE ReplaySteps(_, _)
\* every command of buffer taken through a whole step on the body: the grounded
\* check and the command's application, then one fixed-interval integration
ReplaySteps(body, buffer) ==
    IF buffer = <<>> THEN body
    ELSE ReplaySteps(EngineUpdate(applyInput(body, Head(buffer))), Tail(buffer))

\* C29: a reconciliation pass replays each remaining buffered command through the
\* full step logic (grounded recompute, command application, one fixed-interval
\* integration): replaying k commands advances the corrected body by k integration
\* steps.
C29_ReplayIntegrates ==
    [][IsReconcileStep =>
          scene_body' = ReplaySteps(scene_blend'.blended, scene_inputBuffer')]_vars

----------------------------------------------------------------------------
(* Claims about the round-trip measurement *)

\* the client receives a pong
IsPongReceipt == net_pongs' = net_pongs - 1

\* C30: every rtt the client computes on a pong is the time elapsed since the send
\* timestamp of the ping this pong answers, also when the pong arrives after a later
\* ping has been sent or when more than one ping is outstanding.
C30_RttOfAnsweredPing ==
    [][IsPongReceipt => scene_rtt' = scene_now - Head(net_sentAt)]_vars

----------------------------------------------------------------------------
(* Claims about who writes what, and about the counters' relations *)

\* the room answers a ping
IsPingAnswer == net_pings' = net_pings - 1 /\ net_pongs' = net_pongs + 1

\* C31: once a player has joined, only fixedTick writes its entity state: an input
\* message only appends one command at the end of its sender's own queue, and a ping
\* only sends a pong; neither changes any player's x, y, vx, vy, grounded, tick,
\* lastProcessedTick or body, any other player's queue, or currentTick.
C31_OnlyFixedTickWrites ==
    [][/\ (IsInputDelivery /\ Head(net_inputs).from \in Joined) =>
            /\ room_players' =
                  [room_players EXCEPT ![Head(net_inputs).from].inputQueue =
                                          Append(@, Head(net_inputs).input)]
            /\ UNCHANGED <<room_currentTick, room_playerBodies>>
       /\ IsPingAnswer => UNCHANGED <<room_currentTick, room_players, room_playerBodies>>
       /\ ~IsFixedTickStep =>
            \A s \in Joined \cap DOMAIN room_players' :
                /\ EntityState(room_players'[s]) = EntityState(room_players[s])
                /\ room_playerBodies'[s] = room_playerBodies[s]]_vars

\* a command waits in one player's queue, the other player's queue is empty, both
\* have been stepped, and a pong is on its way
C31_Witness ==
    /\ Joined = {"s1", "s2"}
    /\ net_pongs = 1
    /\ Len(room_players["s1"].inputQueue) = 1
    /\ room_players["s2"].inputQueue = <<>>
    /\ room_currentTick >= 1
    /\ room_players["s1"].tick = room_currentTick
    /\ room_players["s2"].tick = room_currentTick

\* C32: once the local entity exists the client's loop always makes local progress:
\* every update whose accumulated time reaches one
\* fixed interval runs a fixed step that increments currentTick and applies and
\* sends the input gathered from the keys, whatever has or has not been received
\* from the server.
C32_LocalProgress ==
    [][(/\ scene_clock' # scene_clock
        /\ scene_body # NoBody
        /\ scene_elapsedTime + (scene_clock' - scene_clock) >= FIXED_TIME_STEP)
       => /\ scene_currentTick' > scene_currentTick
          /\ scene_inputPayload' =
                InputData(scene_keys.left, scene_keys.right, scene_keys.jump,
                          scene_currentTick' + scene_serverTickOffset)
          /\ scene_body'.vx = SceneVelocityX(scene_inputPayload') * FP
          /\ net_inputs' # <<>>
          /\ net_inputs'[Len(net_inputs')].input = scene_inputPayload'
          /\ scene_inputBuffer'[Len(scene_inputBuffer')] = scene_inputPayload']_vars

\* the client has taken two steps although its player has left the room and no
\* snapshot has been reconciled and no pong taken
C32_Witness ==
    /\ scene_currentTick = 2
    /\ Len(scene_inputBuffer) = 2
    /\ scene_lastReconciledTick = 0
    /\ scene_blend = NoBody
    /\ scene_rtt = 0
    /\ LocalSession \in room_left
    /\ room_currentTick = 0

\* C33: between the room's handlers every player record's tick is the room's
\* currentTick: onJoin sets it so and every fixedTick stamps every player with it,
\* whether or not a command of that player was consumed.
C33_TickIsCurrentTick ==
    \A s \in Joined : room_players[s].tick = room_currentTick

\* after two steps: one player has had a command consumed, the other, who joined
\* after the first step, none; both carry the room's tick
C33_Witness ==
    /\ Joined = {"s1", "s2"}
    /\ room_currentTick = 2
    /\ room_players["s1"].lastProcessedTick >= 1
    /\ room_players["s2"].lastProcessedTick = 0
    /\ room_drained["s2"].applied = <<>>
    /\ room_players["s2"].y > SPAWN_Y * FP
    /\ room_players["s2"].y < room_players["s1"].y
    /\ room_players["s2"].tick = 2

\* C34: on the room every player's lastProcessedTick is at most currentTick in every
\* reachable state, since only commands with tick <= currentTick are consumed.
C34_WatermarkNotAhead ==
    \A s \in Joined : room_players[s].lastProcessedTick <= room_currentTick

\* a player's watermark has reached the room's tick while a command dated later is
\* still queued
C34_Witness ==
    \E s \in Joined :
        /\ room_currentTick >= 2
        /\ room_players[s].lastProcessedTick = room_currentTick
        /\ \E i \in DOMAIN room_players[s].inputQueue :
              room_players[s].inputQueue[i].tick > room_currentTick

\* C35: on the client lastReconciledTick never decreases: it changes only in a
\* reconciliation pass, and a pass runs only for a snapshot whose lastProcessedTick
\* is strictly greater than it, also when the replicated lastProcessedTick goes down
\* from one snapshot to the next.
C35_ReconciledTickMonotonic ==
    [][/\ scene_lastReconciledTick' >= scene_lastReconciledTick
       /\ scene_lastReconciledTick' # scene_lastReconciledTick =>
             /\ scene_player'.lastProcessedTick = scene_lastReconciledTick'
             /\ scene_blend'.against = scene_player'
       /\ (scene_player' # scene_player /\ scene_player # NoBody
              /\ scene_player'.lastProcessedTick <= scene_lastReconciledTick)
             => UNCHANGED <<scene_lastReconciledTick, scene_blend, scene_body,
                            scene_inputBuffer>>]_vars

\* the last snapshot applied carries a lower lastProcessedTick than the one that was
\* reconciled before it
C35_Witness ==
    /\ scene_player # NoBody
    /\ scene_blend # NoBody
    /\ scene_player.lastProcessedTick < scene_lastReconciledTick
    /\ scene_blend.against.lastProcessedTick = scene_lastReconciledTick
    /\ scene_lastReconciledTick = 2

----------------------------------------------------------------------------
(* Claims about command ticks, jump impulses and the buffer's size *)

\* C36: the ticks of the commands a client generates are strictly increasing in
\* generation order, hence pairwise distinct, however fixed steps interleave with
\* pongs that raise or lower serverTickOffset.
C36_CommandTicksIncrease ==
    [][IsSceneFixedStep => scene_inputPayload'.tick > scene_inputPayload.tick]_vars

\* C37: the room applies at most one jump impulse to an entity within one fixedTick,
\* however many queued commands with jump set it drains for it in that step.
C37_OneJumpPerStep ==
    [][IsFixedTickStep =>
          \A s \in Joined : room_drained'[s].force >= -JUMP_FORCE]_vars

\* C38: one reconciliation pass applies at most one jump impulse to the local body,
\* however many unacknowledged buffered commands with jump set it replays while the
\* corrected body is grounded.
C38_OneJumpPerPass ==
    [][IsReconcileStep =>
          scene_body'.fy >= scene_blend'.blended.fy - JUMP_FORCE]_vars

\* C39: at the end of every client fixed step the inputBuffer holds at most 100
\* commands, whatever has been acknowledged (nothing, too) and however
\* serverTickOffset has changed between the steps.
C39_BufferAtMost100 ==
    [][IsSceneFixedStep => Len(scene_inputBuffer') <= SCENE_BUFFER_HIGH_WATER]_vars

====
